---- MODULE Spec2Model ----
(***************************************************************************)
(* Tiled inference pipeline of the optical-profilometry defect detection   *)
(* app (src/app.js).  The file holds three front-end variants of the same  *)
(* pipeline:                                                               *)
(*   variant 1  lines    1-1262  ImageProcessor / App (multi-file gallery) *)
(*   variant 2  lines 1264-2158  ImageProcessor / ModelInferenceApp        *)
(*   variant 3  lines 2160-2774  ImageProcessor / App (single file)        *)
(* The model picks the variant in Init and keeps it for the behaviour.     *)
(*                                                                         *)
(* Numbers.  A Float32 sample is a record: Fin(n), NaN, PosInf or NegInf.  *)
(* Raw-domain values (intensity, reconstruction, difference) are counted   *)
(* in units of 1/128, in which both affine constants are integers:         *)
(*   50481.640625 = 6461650/128      16498.2578125 = 2111777/128           *)
(* A normalized value q (a tile or a model output element) is kept as the  *)
(* exact rational q = p / Scale128, stored as its numerator p.             *)
(***************************************************************************)
EXTENDS Integers, Sequences, FiniteSets, TLC

(***************************************************************************)
(* Geometry.  The source hard-codes a 4x4 grid of 256x256 tiles over a     *)
(* row stride of 1024.  The model scales the grid side down to GridN and   *)
(* the tile side down to CropSize; the stride, the number of outputs and   *)
(* the tile length follow from them as they do in the source               *)
(* (1024 = 4*256, 16 = 4*4, 65536 = 256*256).                              *)
(***************************************************************************)
GridN == 2
CropSize == 2
Stride == GridN * CropSize
NumOutputs == GridN * GridN
TileLen == CropSize * CropSize

Offset128 == 6461650
Scale128 == 2111777

(***************************************************************************)
(* Float32 samples.                                                        *)
(***************************************************************************)
Fin(n) == [t |-> "fin", v |-> n]
NaN == [t |-> "nan", v |-> 0]
PosInf == [t |-> "inf", v |-> 1]
NegInf == [t |-> "inf", v |-> -1]

\* isFinite(x): false for NaN and both infinities
IsFinite(x) == x.t = "fin"

\* x - c and x + c for a finite constant c: NaN and the infinities absorb it
FAddConst(x, c) == IF IsFinite(x) THEN Fin(x.v + c) ELSE x

\* a - b, IEEE: NaN if either is NaN or for Inf - Inf of the same sign
FSub(a, b) ==
    IF IsFinite(a) /\ IsFinite(b) THEN Fin(a.v - b.v)
    ELSE IF a.t = "nan" \/ b.t = "nan" THEN NaN
    ELSE IF IsFinite(a) THEN [t |-> "inf", v |-> 0 - b.v]
    ELSE IF IsFinite(b) THEN a
    ELSE IF a.v = b.v THEN NaN ELSE a

\* a >= b on numbers: false when either is NaN (or undefined)
FGe(a, b) ==
    IF a.t = "nan" \/ b.t = "nan" THEN FALSE
    ELSE IF a.t = "inf" THEN a.v = 1 \/ (b.t = "inf" /\ b.v = -1)
    ELSE IF b.t = "inf" THEN b.v = -1
    ELSE a.v >= b.v

\* Math.abs
FAbs(x) ==
    IF IsFinite(x) THEN Fin(IF x.v < 0 THEN 0 - x.v ELSE x.v)
    ELSE IF x.t = "inf" THEN PosInf ELSE NaN

(***************************************************************************)
(* Buffers are sequences; the source's 0-based index i is element i+1.     *)
(* Reading a typed array or an Array outside its length yields undefined,  *)
(* which every arithmetic use turns into NaN.  A write outside the length  *)
(* of a typed array is dropped.  A nullable field holds <<>> for null or   *)
(* <<b>> for the buffer b.                                                 *)
(***************************************************************************)
At(buf, i) == IF i >= 0 /\ i < Len(buf) THEN buf[i + 1] ELSE NaN
Put(buf, i, x) == IF i >= 0 /\ i < Len(buf) THEN [buf EXCEPT ![i + 1] = x] ELSE buf
Zeros(n) == [i \in 1..n |-> Fin(0)]
Null == <<>>
Some(b) == <<b>>
IsNull(o) == o = <<>>
Get(o) == o[1]

(***************************************************************************)
(* The affine normalization of processCrop and its inverse in              *)
(* combineOutputs.  (v - 50481.640625) / 16498.2578125 of a raw value of   *)
(* v/128 is the rational (v - Offset128) / Scale128, stored as its         *)
(* numerator; (p / Scale128) * 16498.2578125 + 50481.640625 is             *)
(* (p + Offset128) / 128.                                                  *)
(***************************************************************************)
Normalize(x) == FAddConst(x, 0 - Offset128)
Denormalize_WrongOffset(x) == FAddConst(x, Offset128 + 1)
Denormalize(x) == FAddConst(x, Offset128)

(***************************************************************************)
(* Input files.  Files "a" and "b" hold one Stride x Stride scan each:     *)
(* "a" is finite everywhere with pairwise distinct samples; "b" has a NaN, *)
(* a +Infinity and a -Infinity sample (sensor dropout).                    *)
(* The files of ScanFiles have other shapes or contents:                   *)
(*   "c"  a constant Intensity dataset of Stride x Stride samples next to  *)
(*        a Surface dataset of one more row, finite in that row only;      *)
(*   "d"  an Intensity dataset without any finite sample;                  *)
(*   "e"  a scan of (Stride - 1) x (Stride - 1) pixels;                    *)
(*   "g"  the Intensity dataset of "a" next to a Surface dataset of one    *)
(*        more row, finite everywhere.                                     *)
(* File "w" is a single row of 50 pixels.                                  *)
(***************************************************************************)
Files == {"a", "b"}
ScanFiles == {"c", "d", "e", "g"}
NumPixels == Stride * Stride

ScanSample(f, i) ==
    IF f \in {"a", "e", "g"} THEN Fin(Offset128 + (i + 1) * Scale128)
    ELSE IF f = "c" THEN Fin(Offset128 + Scale128)
    ELSE IF f = "d" THEN NaN
    ELSE IF f = "w" THEN Fin(Offset128 + (i + 1) * 128)
    ELSE IF i = 1 THEN NaN
    ELSE IF i = Stride + 2 THEN PosInf
    ELSE IF i = NumPixels - 1 THEN NegInf
    ELSE Fin(Offset128 - (i + 3) * Scale128 + i)

\* this.width = surface.width; this.height = surface.height
ScanWidth(f) == IF f = "w" THEN 50 ELSE IF f = "e" THEN Stride - 1 ELSE Stride
ScanHeight(f) ==
    IF f = "w" THEN 1 ELSE IF f = "e" THEN Stride - 1
    ELSE IF f \in {"c", "g"} THEN Stride + 1 ELSE Stride
\* the Intensity dataset has its own shape
IntensityLength(f) == IF f \in {"c", "g"} THEN NumPixels ELSE ScanWidth(f) * ScanHeight(f)
ScanIntensity(f) == [j \in 1..IntensityLength(f) |-> ScanSample(f, j - 1)]

\* the Surface dataset: heights, with two dropouts in file "b"
SurfaceSample(f, i) ==
    IF f = "b" /\ i \in {0, Stride + 2} THEN NaN
    ELSE IF f = "c" THEN (IF i < NumPixels THEN NaN ELSE Fin(256))
    ELSE Fin(128 * (i % Stride) + 64 * (i \div Stride))

ScanSurface(f) == [j \in 1..(ScanWidth(f) * ScanHeight(f)) |-> SurfaceSample(f, j - 1)]

(***************************************************************************)
(* NormalizationCalculator: calculateNormalization (variants 1, 3) and     *)
(* calculateNormalizationParams (variant 2).                               *)
(***************************************************************************)
\* the smallest / largest finite entry among the first n, starting from
\* Infinity / -Infinity
MinFinite(buf, n) ==
    LET S == {buf[j].v : j \in {k \in 1..n : k <= Len(buf) /\ IsFinite(buf[k])}}
    IN  IF S = {} THEN PosInf ELSE Fin(CHOOSE m \in S : \A x \in S : m <= x)

MaxFinite(buf, n) ==
    LET S == {buf[j].v : j \in {k \in 1..n : k <= Len(buf) /\ IsFinite(buf[k])}}
    IN  IF S = {} THEN NegInf ELSE Fin(CHOOSE m \in S : \A x \in S : m >= x)

\* if (max === min) max = min + 1
Widened(lo, hi) == IF hi = lo THEN FAddConst(lo, 128) ELSE hi

\* variants 1 and 3 scan both buffers in one loop over the intensity
\* buffer's length; variant 2 scans each buffer over its own length
CalculateNormalization(v, intensity, surface) ==
    LET n == IF v = 2 THEN Len(surface) ELSE Len(intensity)
        ilo == MinFinite(intensity, Len(intensity))
        ihi == MaxFinite(intensity, Len(intensity))
        slo == MinFinite(surface, n)
        shi == MaxFinite(surface, n)
    IN  [intensityMin |-> ilo, intensityMax |-> Widened(ilo, ihi),
         surfaceMin |-> slo, surfaceMax |-> Widened(slo, shi)]

(***************************************************************************)
(* CropExtractor: ImageProcessor.processCrop.                              *)
(***************************************************************************)
\* the source index read for tile position (x, y) of grid cell (gridX, gridY)
SrcIndex_SwappedGrid(gridX, gridY, x, y) ==
    (gridX * CropSize + y) * Stride + gridY * CropSize + x
SrcIndex_TileStride(gridX, gridY, x, y) ==
    (gridY * CropSize + y) * CropSize + gridX * CropSize + x
SrcIndex(gridX, gridY, x, y) ==
    (gridY * CropSize + y) * Stride + gridX * CropSize + x

\* variants 1 and 3: the sample goes through the affine transform as it is
CropValue(val) == Normalize(val)

\* variant 2: a NaN or infinite sample is replaced by 0 before the transform
CropValueV2(val) == Normalize(IF IsFinite(val) THEN val ELSE Fin(0))

ProcessCrop(v, raw, gridX, gridY) ==
    [j \in 1..TileLen |->
        LET x == (j - 1) % CropSize
            y == (j - 1) \div CropSize
            val == At(raw, SrcIndex(gridX, gridY, x, y))
        IN  IF v = 2 THEN CropValueV2(val) ELSE CropValue(val)]

(***************************************************************************)
(* ReconstructionAssembler: ImageProcessor.combineOutputs.                 *)
(* The result is [ok, rec]: the returned boolean and the value of          *)
(* this.lastReconstructed when the call returns.                           *)
(***************************************************************************)
\* the guard and the target index of one element write
DstIndex_SwappedGrid(gridX, gridY, x, y) ==
    (gridX * CropSize + y) * Stride + gridY * CropSize + x
DstIndex(gridX, gridY, x, y) ==
    (gridY * CropSize + y) * Stride + gridX * CropSize + x
WriteGuard(gridX, gridY, x, y) ==
    gridX * CropSize + x < Stride /\ gridY * CropSize + y < Stride

\* the inner y/x loops for one cell, from tile position j on (the test on
\* Len(nb) only makes the evaluation of nb happen before the next step)
RECURSIVE WriteTile(_, _, _, _, _)
WriteTile(buf, output, gridX, gridY, j) ==
    IF j >= TileLen THEN buf
    ELSE LET x == j % CropSize
             y == j \div CropSize
             nb == IF WriteGuard(gridX, gridY, x, y)
                   THEN Put(buf, DstIndex(gridX, gridY, x, y), Denormalize(At(output, j)))
                   ELSE buf
         IN  IF Len(nb) >= 0 THEN WriteTile(nb, output, gridX, gridY, j + 1) ELSE nb

\* the gridY/gridX loops from cell k on; a wrong-length output returns false
\* with the buffer as written so far
RECURSIVE CombineFrom(_, _, _)
CombineFrom(buf, outputs, k) ==
    IF k >= NumOutputs THEN [ok |-> TRUE, rec |-> Some(buf)]
    ELSE LET output == outputs[k + 1]
         IN  IF Len(output) # TileLen THEN [ok |-> FALSE, rec |-> Some(buf)]
             ELSE CombineFrom(WriteTile(buf, output, k % GridN, k \div GridN, 0),
                              outputs, k + 1)

CombineOutputs(p, outputs) ==
    IF Len(outputs) # NumOutputs THEN [ok |-> FALSE, rec |-> p.lastReconstructed]
    ELSE CombineFrom(Zeros(p.width * p.height), outputs, 0)

(***************************************************************************)
(* DifferenceEngine: App.createDifferenceData / createDifferenceImage.     *)
(***************************************************************************)
\* the isFinite guard of the loop body
DiffValue_NoFiniteCheck(a, b) == FAbs(FSub(a, b))
DiffValue(a, b) ==
    IF IsFinite(a) /\ IsFinite(b) THEN FAbs(FSub(a, b)) ELSE Fin(0)

DifferenceOf(intensityData, reconstructedData) ==
    [j \in 1..Len(intensityData) |->
        DiffValue(intensityData[j], At(reconstructedData, j - 1))]

(***************************************************************************)
(* PercentileThresholder and the highlight consumers: updateHighlighting   *)
(* (variants 1, 3) and updatePercentileHighlighting (variant 2).           *)
(***************************************************************************)
\* the slider's starting value
InitialPercentile == 95

\* the candidate values: variants 1 and 3 keep isFinite(d) && d > 0, variant 2
\* keeps every finite value
ValidDiffs(v, d) == SelectSeq(d, LAMBDA x : IsFinite(x) /\ (v = 2 \/ x.v > 0))

\* validDiffs.sort((a, b) => a - b) on finite numbers: element k of the
\* result is the k-th smallest
SortAsc(s) ==
    [k \in 1..Len(s) |->
        CHOOSE x \in {s[j] : j \in 1..Len(s)} :
            /\ Cardinality({j \in 1..Len(s) : s[j].v < x.v}) < k
            /\ k <= Cardinality({j \in 1..Len(s) : s[j].v <= x.v})]

\* (p / 100) * n is evaluated in IEEE-754 double arithmetic: p / 100 is
\* rounded first, and for these (p, n) with n <= 100 the rounded product
\* lies just below the integer p * n / 100, so Math.floor returns one less
\* (for example (58 / 100) * 50 = 28.999999999999996)
RoundsBelow == {<<58, 50>>, <<70, 90>>, <<29, 100>>, <<57, 100>>, <<58, 100>>}

\* Math.floor((this.currentPercentile / 100) * validDiffs.length), n <= 100
PercentileIndex_Reversed(p, n) == ((100 - p) * n) \div 100
PercentileIndex(p, n) ==
    IF <<p, n>> \in RoundsBelow THEN (p * n) \div 100 - 1 ELSE (p * n) \div 100

\* Math.min(thresholdIdx, validDiffs.length - 1)
ClampedIndex(i, n) == IF i < n - 1 THEN i ELSE n - 1

\* updateIntensityOverlay / updateIntensityHighlighting: the pixels of the
\* Stride x Stride canvas that are tinted red
Overlay(d, t) ==
    {i \in 0..(Stride * Stride - 1) :
        i < Len(d) /\ IsFinite(At(d, i)) /\ FGe(At(d, i), t)}

\* the point cloud's red points, by pixel index.  Variant 1 colours in the
\* vertex shader, variant 3 in updatePointCloud, both over the Stride x
\* Stride grid; variant 2 (updatePointCloudHighlighting) loops over the
\* scan's width and height.  A pixel has a point where its height is finite;
\* the test on the difference is diff >= threshold alone.
Cloud(v, d, t, p) ==
    LET n == IF v = 2 THEN p.width * p.height ELSE Stride * Stride
    IN  {i \in 0..(n - 1) :
            IsFinite(At(Get(p.rawSurfaceData), i)) /\ FGe(At(d, i), t)}

\* no highlighting applied: hasHighlight = 0, a freshly drawn canvas, grey points
NoHighlight == [threshold |-> Null, idx |-> -1, overlay |-> {}, cloud |-> {}]

\* updateHighlighting: the highlight state afterwards (idx is history: the
\* index the threshold was fetched at)
UpdateHighlighting(v, dd, pts, pct, p, old) ==
    IF IsNull(dd) \/ ~pts THEN old
    ELSE LET valid == ValidDiffs(v, Get(dd))
             n == Len(valid)
         IN  IF n = 0 THEN old
             ELSE LET idx == ClampedIndex(PercentileIndex(pct, n), n)
                      t == SortAsc(valid)[idx + 1]
                  IN  [threshold |-> Some(t), idx |-> idx,
                       overlay |-> Overlay(Get(dd), t),
                       cloud |-> Cloud(v, Get(dd), t, p)]

\* createSurfaceVisualization: whether this.points exists afterwards
PointsCreated(v, p) ==
    LET range == FSub(p.surfaceMax, p.surfaceMin)
    IN  IF v = 1 THEN range # Fin(0)
        ELSE IF v = 2
        THEN /\ ~IsNull(p.rawSurfaceData)
             /\ ~FGe(Fin(0), range)
             /\ \E i \in 0..(p.width * p.height - 1) : IsFinite(At(Get(p.rawSurfaceData), i))
        ELSE TRUE

(***************************************************************************)
(* The inference backend, a black box: model.inference(cropData).  The     *)
(* loaded model is either the identity or a model that moves every         *)
(* odd-indexed element of the tile by 1.0; a call can also return an       *)
(* output one element short, or throw.                                     *)
(***************************************************************************)
ModelKinds == {"identity", "perturb"}

Infer(kind, tile) ==
    IF kind = "identity" THEN tile
    ELSE [j \in 1..Len(tile) |->
            IF (j - 1) % 2 = 1 THEN FAddConst(tile[j], Scale128) ELSE tile[j]]

ShortOutput(out) == SubSeq(out, 1, Len(out) - 1)

(***************************************************************************)
(* Bounds of the exploration.                                              *)
(***************************************************************************)
\* user events (file loads started, file switches, run clicks) per behaviour
MaxEvents == 3
\* file loads in flight at the same time
MaxPending == 1
\* the file lists a user drops on loadMultipleDatxFiles
MultiInputs == {<<"b">>, <<"a", "b">>}

(***************************************************************************)
(* State.                                                                  *)
(***************************************************************************)
VARIABLES
    variant,          \* which front end runs: 1, 2 or 3
    model,            \* this.model: "none" (null) or the kind of the loaded model
    modelPc,          \* loadModel(): "loading" (awaiting wasm()) or "done"
    isRunning,        \* this.isRunning
    imageLoaded,      \* this.imageLoaded
    differenceData,   \* this.differenceData: Null or Some(buffer)
    procs,            \* the live ImageProcessor objects, by object identity
    imageProcessor,   \* this.imageProcessor: the identity of the current one
    loadedFiles,      \* variant 1: this.loadedFiles, the processors' identities
    currentFileIndex, \* variant 1: this.currentFileIndex (0-based, -1 at start)
    loads,            \* file loads in flight, each suspended at an await
    pc,               \* the run loop: "idle", "infer" (awaiting model.inference)
                      \* or "timer" (awaiting the 10 ms timeout)
    cell,             \* the run loop's iteration: gridY * GridN + gridX
    outputs,          \* the run loop's local array of collected outputs
    cropData,         \* the tile handed to the backend call in flight
    outstanding,      \* backend calls submitted and not yet settled
    calls,            \* history: the backend calls of the current run
    events,           \* history: user events so far
    lastOp,           \* history: the handler step that ran last
    currentPercentile, \* this.currentPercentile
    points,           \* whether this.points (the point cloud) exists
    highlight,        \* the highlighting on screen: the threshold applied, the
                      \* tinted canvas pixels and the red points
    folder,           \* the files the user can pick in the file dialogs
    controlsShown,    \* percentileControls.style.display is not 'none'
    runBtnDisabled    \* runBtn.disabled

runVars == <<pc, cell, outputs, cropData, outstanding, calls>>
fileVars == <<procs, imageProcessor, loadedFiles, currentFileIndex, loads>>
appVars == <<model, modelPc, isRunning, imageLoaded, differenceData>>
hlVars == <<currentPercentile, points, highlight>>
uiVars == <<controlsShown, runBtnDisabled>>
vars == <<variant, folder, appVars, fileVars, runVars, events, lastOp, hlVars, uiVars>>

\* the file lists a user can drop from the folder
DroppedLists ==
    IF folder = Files THEN MultiInputs
    ELSE {<<f>> : f \in folder} \cup {<<f, f>> : f \in folder}

\* new ImageProcessor().  Two fields are history, not program state: file names
\* the file rawIntensityData was read from, reconSrc the files whose tiles fed
\* the outputs that lastReconstructed was assembled from.
NewProcessor ==
    [file |-> "none", rawIntensityData |-> Null, rawSurfaceData |-> Null,
     width |-> 0, height |-> 0,
     intensityMin |-> Fin(0), intensityMax |-> Fin(128),
     surfaceMin |-> Fin(0), surfaceMax |-> Fin(128),
     lastReconstructed |-> Null, reconSrc |-> {}]

\* the assignments of a successful loadDATXFile, calculateNormalization
\* included: lastReconstructed is not among them
\* what loadDATXFile reads from file f and computes from it: the two
\* buffers, and the ranges calculateNormalization gives in each variant
FileContents ==
    [f \in Files \cup ScanFiles \cup {"w"} |->
        [intensity |-> ScanIntensity(f), surface |-> ScanSurface(f),
         ranges |-> [v \in 1..3 |->
                        CalculateNormalization(v, ScanIntensity(f), ScanSurface(f))]]]

LoadedProcessor(v, p, f) ==
    LET r == FileContents[f].ranges[v]
    IN  [p EXCEPT !.file = f,
                  !.rawIntensityData = Some(FileContents[f].intensity),
                  !.rawSurfaceData = Some(FileContents[f].surface),
                  !.width = ScanWidth(f),
                  !.height = ScanHeight(f),
                  !.intensityMin = r.intensityMin,
                  !.intensityMax = r.intensityMax,
                  !.surfaceMin = r.surfaceMin,
                  !.surfaceMax = r.surfaceMax]

\* the identity given to a newly constructed object
FreshId(heap) == CHOOSE n \in 0..Cardinality(DOMAIN heap) : n \notin DOMAIN heap

\* the objects still referenced by the App
Live(heap, cur, files) ==
    [id \in ({cur} \cup {files[i] : i \in DOMAIN files}) |-> heap[id]]

Remove(seq, i) == SubSeq(seq, 1, i - 1) \o SubSeq(seq, i + 1, Len(seq))

\* the state after new App(); the percentile controls start hidden and the
\* run button disabled, as the page's markup gives them
Constructed ==
    /\ variant \in {1, 2, 3}
    /\ model = "none"
    /\ modelPc = "loading"
    /\ isRunning = FALSE
    /\ imageLoaded = FALSE
    /\ differenceData = Null
    /\ procs = [id \in {0} |-> NewProcessor]
    /\ imageProcessor = 0
    /\ loadedFiles = <<>>
    /\ currentFileIndex = -1
    /\ loads = <<>>
    /\ pc = "idle"
    /\ cell = 0
    /\ outputs = <<>>
    /\ cropData = Null
    /\ outstanding = 0
    /\ calls = <<>>
    /\ events = 0
    /\ lastOp = "init"
    /\ currentPercentile = InitialPercentile
    /\ points = FALSE
    /\ highlight = NoHighlight
    /\ controlsShown = FALSE
    /\ runBtnDisabled = TRUE

Init == Constructed /\ folder = Files

\* the display part of onFileLoaded (of loadDatxFile in variant 2) for the
\* processor p: the intensity canvas is redrawn and the point cloud rebuilt
FileShown(p) ==
    /\ points' = PointsCreated(variant, p)
    /\ highlight' = NoHighlight
    /\ controlsShown' = FALSE
    /\ runBtnDisabled' = (model = "none")

(***************************************************************************)
(* loadModel: the continuation after await wasm().                         *)
(***************************************************************************)
LoadModelDone ==
    /\ modelPc = "loading"
    /\ \E kind \in ModelKinds : model' = kind
    /\ modelPc' = "done"
    /\ runBtnDisabled' = ~imageLoaded
    /\ lastOp' = "modelLoaded"
    /\ UNCHANGED <<variant, folder, hlVars, controlsShown, isRunning, imageLoaded, differenceData, fileVars, runVars, events>>

LoadModelFail ==
    /\ modelPc = "loading"
    /\ modelPc' = "done"
    /\ lastOp' = "modelFailed"
    /\ UNCHANGED <<variant, folder, hlVars, uiVars, model, isRunning, imageLoaded, differenceData, fileVars, runVars, events>>

(***************************************************************************)
(* File loading, variants 2 and 3: loadDatxFile (and variant 3's           *)
(* loadDemoFile, which differs only in its alerts).  Both load into the    *)
(* one ImageProcessor the App was constructed with.                        *)
(* A load is two steps: the handler up to its first await, and the rest    *)
(* once the bytes are there (the hops inside and after loadDATXFile are    *)
(* promise continuations; no event handler or timer runs between them).    *)
(***************************************************************************)
LoadDatxStart ==
    /\ variant \in {2, 3}
    /\ events < MaxEvents
    /\ Len(loads) < MaxPending
    /\ \E f \in folder : loads' = Append(loads, [kind |-> "datx", files |-> <<f>>, i |-> 1])
    /\ events' = events + 1
    /\ lastOp' = "loadStart"
    /\ UNCHANGED <<variant, folder, hlVars, uiVars, appVars, procs, imageProcessor, loadedFiles, currentFileIndex, runVars>>

\* loadDATXFile returned true; then the body of onFileLoaded
LoadDatxDone ==
    /\ \E i \in DOMAIN loads :
        /\ loads[i].kind = "datx"
        /\ procs' = [procs EXCEPT ![imageProcessor] = LoadedProcessor(variant, @, loads[i].files[1])]
        /\ loads' = Remove(loads, i)
    /\ imageLoaded' = TRUE
    /\ differenceData' = Null
    /\ FileShown(procs'[imageProcessor])
    /\ lastOp' = "fileLoaded"
    /\ UNCHANGED <<variant, folder, currentPercentile, model, modelPc, isRunning, imageProcessor, loadedFiles,
                   currentFileIndex, runVars, events>>

\* what a loadDATXFile that returns false can leave of processor p when the
\* file has the data of f.  The assignments are statements of the try block:
\* an exception before them (unreadable bytes, no such dataset) leaves p as
\* it was.  The malformed file tried in variant 2, which does not test the
\* datasets for null, has no Intensity dataset: intensity.value throws after
\* rawSurfaceData was assigned.  The one tried in variant 3 has a Surface
\* object that is not a dataset, with no value and no shape: both buffers
\* are assigned (the surface buffer empty), then the destructuring of
\* surface.shape throws.
FailedLoads(v, p, f) ==
    {p}
      \cup (IF v = 2
            THEN {[p EXCEPT !.rawSurfaceData = Some(FileContents[f].surface)]}
            ELSE {})
      \cup (IF v = 3
            THEN {[p EXCEPT !.file = f,
                            !.rawSurfaceData = Some(<<>>),
                            !.rawIntensityData = Some(FileContents[f].intensity)]}
            ELSE {})

\* loadDATXFile returned false
LoadDatxFail ==
    /\ \E i \in DOMAIN loads :
        /\ loads[i].kind = "datx"
        /\ \E q \in FailedLoads(variant, procs[imageProcessor], loads[i].files[1]) :
               procs' = [procs EXCEPT ![imageProcessor] = q]
        /\ loads' = Remove(loads, i)
    /\ lastOp' = "loadFailed"
    /\ UNCHANGED <<variant, folder, hlVars, uiVars, appVars, imageProcessor, loadedFiles, currentFileIndex,
                   runVars, events>>

(***************************************************************************)
(* File loading, variant 1: every file gets an ImageProcessor of its own.  *)
(***************************************************************************)
\* App.switchToFile(index) for an index in range, with the onFileLoaded it calls
SwitchedTo(heap, files, index) ==
    /\ currentFileIndex' = index
    /\ imageProcessor' = files[index + 1]
    /\ differenceData' = Null
    /\ imageLoaded' = TRUE
    /\ loadedFiles' = files
    /\ procs' = Live(heap, files[index + 1], files)
    /\ FileShown(heap[files[index + 1]])

LoadDemoStart ==
    /\ variant = 1
    /\ events < MaxEvents
    /\ Len(loads) < MaxPending
    /\ \E f \in folder : loads' = Append(loads, [kind |-> "demo", files |-> <<f>>, i |-> 1])
    /\ events' = events + 1
    /\ lastOp' = "loadStart"
    /\ UNCHANGED <<variant, folder, hlVars, uiVars, appVars, procs, imageProcessor, loadedFiles, currentFileIndex, runVars>>

LoadDemoDone ==
    /\ \E i \in DOMAIN loads :
        /\ loads[i].kind = "demo"
        /\ LET id == FreshId(procs)
               heap == [n \in DOMAIN procs \cup {id} |->
                           IF n = id THEN LoadedProcessor(variant, NewProcessor, loads[i].files[1])
                           ELSE procs[n]]
           IN  /\ imageProcessor' = id
               /\ loadedFiles' = <<id>>
               /\ procs' = Live(heap, id, <<id>>)
               /\ FileShown(heap[id])
        /\ loads' = Remove(loads, i)
    /\ currentFileIndex' = 0
    /\ imageLoaded' = TRUE
    /\ differenceData' = Null
    /\ lastOp' = "fileLoaded"
    /\ UNCHANGED <<variant, folder, currentPercentile, model, modelPc, isRunning, runVars, events>>

LoadDemoFail ==
    /\ \E i \in DOMAIN loads :
        /\ loads[i].kind = "demo"
        /\ loads' = Remove(loads, i)
    /\ lastOp' = "loadFailed"
    /\ UNCHANGED <<variant, folder, hlVars, uiVars, appVars, procs, imageProcessor, loadedFiles, currentFileIndex,
                   runVars, events>>

\* loadMultipleDatxFiles up to its first await: this.loadedFiles = []
LoadMultiBegin ==
    /\ variant = 1
    /\ events < MaxEvents
    /\ \E fs \in DroppedLists : loads' = Append(loads, [kind |-> "multi", files |-> fs, i |-> 1])
    /\ loadedFiles' = <<>>
    /\ procs' = Live(procs, imageProcessor, <<>>)
    /\ events' = events + 1
    /\ lastOp' = "loadStart"
    /\ UNCHANGED <<variant, folder, hlVars, uiVars, appVars, imageProcessor, currentFileIndex, runVars>>

LoadMultiStart ==
    /\ Len(loads) < MaxPending
    /\ LoadMultiBegin

\* files dropped while MaxPending loads are still in flight
LoadMultiOverlap ==
    /\ Len(loads) = MaxPending
    /\ LoadMultiBegin

\* one iteration of its loop (the file loaded or not) and, after the last
\* one, the code that follows the loop
LoadMultiStep ==
    /\ \E i \in DOMAIN loads, success \in BOOLEAN :
        /\ loads[i].kind = "multi"
        /\ LET t == loads[i]
               id == FreshId(procs)
               heap == IF success
                       THEN [n \in DOMAIN procs \cup {id} |->
                               IF n = id THEN LoadedProcessor(variant, NewProcessor, t.files[t.i])
                               ELSE procs[n]]
                       ELSE procs
               files == IF success THEN Append(loadedFiles, id) ELSE loadedFiles
           IN  IF t.i < Len(t.files)
               THEN /\ loads' = [loads EXCEPT ![i].i = t.i + 1]
                    /\ loadedFiles' = files
                    /\ procs' = heap
                    /\ lastOp' = "multiStep"
                    /\ UNCHANGED <<imageProcessor, currentFileIndex, differenceData, imageLoaded,
                                   points, highlight, uiVars>>
               ELSE /\ loads' = Remove(loads, i)
                    /\ IF Len(files) > 0
                       THEN /\ SwitchedTo(heap, files, 0)
                            /\ lastOp' = "fileLoaded"
                       ELSE /\ lastOp' = "loadFailed"
                            /\ UNCHANGED <<procs, imageProcessor, loadedFiles, currentFileIndex,
                                           differenceData, imageLoaded, points, highlight,
                                           uiVars>>
    /\ UNCHANGED <<variant, folder, currentPercentile, model, modelPc, isRunning, runVars, events>>

\* a thumbnail click or an arrow key: switchToFile(index)
SwitchToFile ==
    /\ variant = 1
    /\ events < MaxEvents
    /\ Len(loadedFiles) > 1
    /\ \E index \in 0..(Len(loadedFiles) - 1) : SwitchedTo(procs, loadedFiles, index)
    /\ events' = events + 1
    /\ lastOp' = "switched"
    /\ UNCHANGED <<variant, folder, currentPercentile, model, modelPc, isRunning, loads, runVars>>

(***************************************************************************)
(* PipelineController: App.runInference / ModelInferenceApp.runGridInference *)
(* The loop suspends twice per cell: at await model.inference(cropData)    *)
(* and at the await of the 10 ms timeout.                                  *)
(***************************************************************************)
\* the early return of runInference
RunGuard_NoRunningCheck == model = "none" \/ ~imageLoaded
RunGuard_NoModelCheck == isRunning \/ ~imageLoaded
RunGuard_NoImageCheck == isRunning \/ model = "none"
RunGuard == isRunning \/ model = "none" \/ ~imageLoaded

\* the grid cell of the loop's k-th iteration: gridY outer, gridX inner
CellX_ColumnMajor(k) == k \div GridN
CellX(k) == k % GridN
CellY_ColumnMajor(k) == k % GridN
CellY(k) == k \div GridN

\* the catch and finally blocks: the run ends, its local outputs are gone
RunEnds_StaysRunning ==
    /\ isRunning' = isRunning
    /\ pc' = "idle"
    /\ outputs' = <<>>
    /\ cropData' = Null
    /\ runBtnDisabled' = FALSE

RunEnds ==
    /\ isRunning' = FALSE
    /\ pc' = "idle"
    /\ outputs' = <<>>
    /\ cropData' = Null
    /\ runBtnDisabled' = FALSE

\* the loop body of iteration k up to await this.model.inference(cropData);
\* processCrop throws when the processor holds no intensity data
BeginIteration(k, outs, log, pending) ==
    LET p == procs[imageProcessor]
    IN  IF IsNull(p.rawIntensityData)
        THEN /\ RunEnds
             /\ cell' = k
             /\ calls' = log
             /\ outstanding' = pending
             /\ lastOp' = "runError"
        ELSE LET tile == ProcessCrop(variant, Get(p.rawIntensityData), CellX(k), CellY(k))
             IN  /\ isRunning' = TRUE
                 /\ runBtnDisabled' = IF k = 0 THEN TRUE ELSE runBtnDisabled
                 /\ pc' = "infer"
                 /\ cell' = k
                 /\ outputs' = outs
                 /\ cropData' = Some(tile)
                 /\ outstanding' = pending + 1
                 /\ calls' = Append(log, [gridX |-> CellX(k), gridY |-> CellY(k),
                                          src |-> p.file, tile |-> tile, out |-> Null])
                 /\ lastOp' = IF k = 0 THEN "runStarted" ELSE "cellStarted"

\* the run button's click handler
RunInference ==
    /\ events < MaxEvents
    /\ events' = events + 1
    /\ IF RunGuard
       THEN /\ lastOp' = "runRejected"
            /\ UNCHANGED <<isRunning, runVars, runBtnDisabled>>
       ELSE BeginIteration(0, <<>>, <<>>, outstanding)
    /\ UNCHANGED <<variant, folder, hlVars, controlsShown, model, modelPc, imageLoaded, differenceData, fileVars>>

\* outputs.push(Array.isArray(output) ? output : Array.from(output)), then
\* the timeout is awaited
Collected(out) ==
    /\ outputs' = Append(outputs, out)
    /\ calls' = [calls EXCEPT ![Len(calls)].out = Some(out)]
    /\ pc' = "timer"
    /\ outstanding' = outstanding - 1
    /\ UNCHANGED <<variant, folder, hlVars, uiVars, appVars, fileVars, cell, cropData, events>>

\* the backend call returns an output of the tile's length
InferReturn ==
    /\ pc = "infer"
    /\ Collected(Infer(model, Get(cropData)))
    /\ lastOp' = "inferReturned"

\* the backend call returns an output one element short (explored for the
\* first and for the last cell of a run)
InferReturnShort ==
    /\ pc = "infer"
    /\ cell \in {0, NumOutputs - 1}
    /\ Collected(ShortOutput(Infer(model, Get(cropData))))
    /\ lastOp' = "inferReturned"

\* the backend call throws: catch, finally
InferThrow_NoFinally ==
    /\ pc = "infer"
    /\ RunEnds_StaysRunning
    /\ outstanding' = outstanding - 1
    /\ lastOp' = "runError"
    /\ UNCHANGED <<variant, folder, hlVars, controlsShown, model, modelPc, imageLoaded, differenceData, fileVars, cell,
                   calls, events>>
InferThrow ==
    /\ pc = "infer"
    /\ RunEnds
    /\ outstanding' = outstanding - 1
    /\ lastOp' = "runError"
    /\ UNCHANGED <<variant, folder, hlVars, controlsShown, model, modelPc, imageLoaded, differenceData, fileVars, cell,
                   calls, events>>

\* createDifferenceData (variants 1, 3) and createDifferenceImage (variant 2,
\* which returns early on missing or unequal-length data): the value of
\* this.differenceData afterwards
CreateDifferenceData(v, p, old) ==
    IF IsNull(p.rawIntensityData) \/ IsNull(p.lastReconstructed) THEN old
    ELSE IF v = 2 /\ Len(Get(p.rawIntensityData)) # Len(Get(p.lastReconstructed)) THEN old
    ELSE Some(DifferenceOf(Get(p.rawIntensityData), Get(p.lastReconstructed)))

\* after the loop: combineOutputs and, if it returned true, the difference
\* and the highlighting
FinishRun_AssemblesInPlace ==
    LET r == CombineOutputs(procs[imageProcessor], outputs)
        p == [procs[imageProcessor] EXCEPT
                 !.lastReconstructed = r.rec,
                 !.rawIntensityData = IF r.ok THEN r.rec ELSE @,
                 !.reconSrc = {calls[k].src : k \in DOMAIN calls}]
    IN  /\ procs' = [procs EXCEPT ![imageProcessor] = p]
        /\ differenceData' = IF r.ok THEN CreateDifferenceData(variant, p, differenceData)
                             ELSE differenceData
        /\ highlight' = IF r.ok
                        THEN UpdateHighlighting(variant, differenceData', points,
                                                currentPercentile, p, highlight)
                        ELSE highlight
        /\ controlsShown' = IF r.ok THEN TRUE ELSE controlsShown
        /\ lastOp' = IF r.ok THEN "runCompleted" ELSE "outputsRejected"
        /\ RunEnds
        /\ UNCHANGED <<cell, calls, outstanding>>
FinishRun ==
    LET r == CombineOutputs(procs[imageProcessor], outputs)
        p == [procs[imageProcessor] EXCEPT
                 !.lastReconstructed = r.rec,
                 !.reconSrc = {calls[k].src : k \in DOMAIN calls}]
    IN  /\ procs' = [procs EXCEPT ![imageProcessor] = p]
        /\ differenceData' = IF r.ok THEN CreateDifferenceData(variant, p, differenceData)
                             ELSE differenceData
        /\ highlight' = IF r.ok
                        THEN UpdateHighlighting(variant, differenceData', points,
                                                currentPercentile, p, highlight)
                        ELSE highlight
        /\ controlsShown' = IF r.ok THEN TRUE ELSE controlsShown
        /\ lastOp' = IF r.ok THEN "runCompleted" ELSE "outputsRejected"
        /\ RunEnds
        /\ UNCHANGED <<cell, calls, outstanding>>

\* the timeout fires: the next iteration, or the code after the loop
TimerFire ==
    /\ pc = "timer"
    /\ IF cell + 1 < NumOutputs
       THEN /\ BeginIteration(cell + 1, outputs, calls, outstanding)
            /\ UNCHANGED <<procs, differenceData, highlight, controlsShown>>
       ELSE FinishRun
    /\ UNCHANGED <<variant, folder, currentPercentile, points, model, modelPc, imageLoaded, imageProcessor, loadedFiles,
                   currentFileIndex, loads, events>>

\* the percentile slider's input handler, for the slider value pct
PercentileInput(pct) ==
    /\ currentPercentile' = pct
    /\ highlight' = UpdateHighlighting(variant, differenceData, points, pct,
                                       procs[imageProcessor], highlight)
    /\ lastOp' = "percentileSet"
    /\ UNCHANGED <<variant, folder, appVars, fileVars, runVars, points, uiVars>>

\* the slider moved to any of its positions
SetPercentile ==
    /\ \E pct \in 0..100 : PercentileInput(pct)
    /\ UNCHANGED events

\* the slider positions tried within a whole session
SliderStops == {50, 99}

\* the slider moved as one of the user events of a session
SliderInput ==
    /\ events < MaxEvents
    /\ events' = events + 1
    /\ \E pct \in SliderStops : PercentileInput(pct)

Next ==
    \/ LoadModelDone
    \/ LoadModelFail
    \/ LoadDatxStart
    \/ LoadDatxDone
    \/ LoadDatxFail
    \/ LoadDemoStart
    \/ LoadDemoDone
    \/ LoadDemoFail
    \/ LoadMultiStart
    \/ LoadMultiStep
    \/ SwitchToFile
    \/ RunInference
    \/ InferReturn
    \/ InferReturnShort
    \/ InferThrow
    \/ TimerFire

Spec == Init /\ [][Next]_vars

(***************************************************************************)
(* The whole program with the slider among the user events, under the      *)
(* scheduling the run loop relies on: the 10 ms timeout fires, and a       *)
(* backend call in flight returns or throws.                               *)
(***************************************************************************)
NextLive == Next \/ SliderInput

BackendSettles == InferReturn \/ InferReturnShort \/ InferThrow

\* weak fairness of TimerFire, WF_vars(TimerFire), with ENABLED
\* <<TimerFire>>_vars written as the guard it is equivalent to: TimerFire can
\* be taken exactly when pc = "timer", and taking it changes pc
TimerFires == []<>(pc # "timer") \/ []<><<TimerFire>>_vars

SpecLive ==
    /\ Init
    /\ [][NextLive]_vars
    /\ TimerFires
    /\ WF_vars(BackendSettles)

(***************************************************************************)
(* The whole program with one more file drop allowed while loads are in    *)
(* flight.                                                                 *)
(***************************************************************************)
NextMulti == Next \/ LoadMultiOverlap

SpecMulti == Init /\ [][NextMulti]_vars

(***************************************************************************)
(* The same program in a session whose folder holds one of the ScanFiles.  *)
(***************************************************************************)
InitScan == Constructed /\ folder \in {{f} : f \in ScanFiles}

SpecScan == InitScan /\ [][Next]_vars

(***************************************************************************)
(* The thresholder and the highlight consumers on their own: a session     *)
(* that holds a scan and the difference buffer of a completed run, and the *)
(* percentile slider being moved.  The difference buffers are drawn from   *)
(* DiffInputs instead of being computed by a run, because the backend is a *)
(* black box: any non-negative value can be the difference at a pixel, and *)
(* Infinity is what a finite |a - b| above the float32 range is stored as. *)
(***************************************************************************)
\* the difference at pixel i in each drawn buffer
DiffSample(kind, i) ==
    IF kind = "zeros" THEN Fin(0)
    ELSE IF kind = "steps" THEN Fin((i % 5) * Scale128)
    ELSE IF kind = "overflow" THEN (IF i = 0 THEN PosInf ELSE Fin(i % 3))
    ELSE Fin(i + 1)

\* a drawn input: the file of the scan and the kind of its difference buffer
DiffInputs ==
    {[file |-> "a", kind |-> "zeros"], [file |-> "a", kind |-> "steps"],
     [file |-> "a", kind |-> "overflow"], [file |-> "b", kind |-> "steps"],
     [file |-> "b", kind |-> "distinct"], [file |-> "w", kind |-> "distinct"]}

DrawnDifference(in) == [j \in 1..IntensityLength(in.file) |-> DiffSample(in.kind, j - 1)]

\* a reconstruction with that difference from the scan (where it is finite)
DrawnReconstruction(in) ==
    [j \in 1..IntensityLength(in.file) |->
        IF IsFinite(DiffSample(in.kind, j - 1))
        THEN FAddConst(ScanSample(in.file, j - 1), DiffSample(in.kind, j - 1).v)
        ELSE NegInf]

InitHighlight ==
    /\ variant \in {1, 2, 3}
    /\ model = "perturb"
    /\ modelPc = "done"
    /\ isRunning = FALSE
    /\ imageLoaded = TRUE
    /\ \E in \in DiffInputs :
        LET p == [LoadedProcessor(variant, NewProcessor, in.file) EXCEPT
                     !.lastReconstructed = Some(DrawnReconstruction(in)),
                     !.reconSrc = {in.file}]
        IN  /\ procs = [id \in {0} |-> p]
            /\ differenceData = Some(DrawnDifference(in))
            /\ points = PointsCreated(variant, p)
            /\ highlight = UpdateHighlighting(variant, differenceData, points,
                                              InitialPercentile, p, NoHighlight)
            /\ folder = {in.file}
    /\ imageProcessor = 0
    /\ loadedFiles = IF variant = 1 THEN <<0>> ELSE <<>>
    /\ currentFileIndex = IF variant = 1 THEN 0 ELSE -1
    /\ loads = <<>>
    /\ pc = "idle"
    /\ cell = 0
    /\ outputs = <<>>
    /\ cropData = Null
    /\ outstanding = 0
    /\ calls = <<>>
    /\ events = 0
    /\ lastOp = "init"
    /\ currentPercentile = InitialPercentile
    /\ controlsShown = TRUE
    /\ runBtnDisabled = FALSE

NextHighlight == SetPercentile

SpecHighlight == InitHighlight /\ [][NextHighlight]_vars

(***************************************************************************)
(* Properties.                                                             *)
(***************************************************************************)
\* the current ImageProcessor and its reconstruction
Current == procs[imageProcessor]
RunActive == pc # "idle"

\* C1: a run click while a run is in flight is a no-op: it submits no backend
\* call, leaves the run's collected outputs, its grid position and isRunning
\* as they are, and changes neither the reconstruction nor the difference
\* buffer.
C1_RejectedWhileRunning ==
    [][(RunInference /\ isRunning) =>
            /\ isRunning'
            /\ UNCHANGED <<pc, cell, outputs, cropData, outstanding, calls>>
            /\ UNCHANGED <<procs, imageProcessor, differenceData>>]_vars

C1_Witness ==
    /\ lastOp = "runRejected"
    /\ isRunning
    /\ pc = "infer"
    /\ Len(outputs) > 0

\* C2: the backend is called strictly one call at a time, in row-major grid
\* order (gridY outer, gridX inner), and a run whose loop ran to its end has
\* made exactly NumOutputs calls (16 in the source).
C2_SequentialRowMajor ==
    /\ outstanding <= 1
    /\ (outstanding = 1) = (pc = "infer")
    /\ \A k \in DOMAIN calls :
        /\ calls[k].gridY = (k - 1) \div GridN
        /\ calls[k].gridX = (k - 1) % GridN
        /\ (RunActive /\ k < Len(calls)) => ~IsNull(calls[k].out)
    /\ pc = "infer" => IsNull(calls[Len(calls)].out)
    /\ lastOp \in {"runCompleted", "outputsRejected"} => Len(calls) = NumOutputs

C2_Witness ==
    /\ lastOp = "runCompleted"
    /\ Len(calls) = NumOutputs
    /\ outstanding = 0

\* C3: the k-th collected output is the backend's result for the tile taken at
\* grid cell (k div GridN, k mod GridN), and after a completed run the
\* reconstruction holds output k at exactly that cell.
C3_PositionalCorrespondence ==
    /\ Len(outputs) <= Len(calls)
    /\ \A k \in DOMAIN outputs :
        LET gx == (k - 1) % GridN
            gy == (k - 1) \div GridN
        IN  /\ calls[k].gridX = gx /\ calls[k].gridY = gy
            /\ calls[k].out = Some(outputs[k])
            /\ outputs[k] \in {Infer(model, calls[k].tile),
                               ShortOutput(Infer(model, calls[k].tile))}
            /\ \A x, y \in 0..(CropSize - 1) :
                LET sample == ScanSample(calls[k].src,
                                         (gy * CropSize + y) * Stride + gx * CropSize + x)
                IN  calls[k].tile[y * CropSize + x + 1] =
                        IF variant = 2 THEN CropValueV2(sample) ELSE CropValue(sample)
    /\ lastOp = "runCompleted" =>
        \A k \in DOMAIN calls : \A x, y \in 0..(CropSize - 1) :
            LET gx == (k - 1) % GridN
                gy == (k - 1) \div GridN
            IN  At(Get(Current.lastReconstructed),
                   (gy * CropSize + y) * Stride + gx * CropSize + x)
                    = Denormalize(At(Get(calls[k].out), y * CropSize + x))

C3_Witness ==
    /\ lastOp = "runCompleted"
    /\ Cardinality({calls[k].src : k \in DOMAIN calls}) = 1
    /\ model = "perturb"

\* the intensity buffer of a whole run: the file all its tiles were taken from
RunSources == {calls[k].src : k \in DOMAIN calls}

\* C4: with an identity backend, a completed run over one scan reconstructs
\* the scan's intensity buffer exactly, at every pixel index.
C4_RoundTripIdentity ==
    (/\ lastOp = "runCompleted"
     /\ model = "identity"
     /\ RunSources = {Current.file}) =>
        Get(Current.lastReconstructed) = Get(Current.rawIntensityData)

\* C4, the part that holds: the round trip is the identity in variants 1 and
\* 3, and in variant 2 at every pixel whose sample is finite.
C4_RoundTripWhereNotSubstituted ==
    (/\ lastOp = "runCompleted"
     /\ model = "identity"
     /\ RunSources = {Current.file}) =>
        \A i \in 0..(NumPixels - 1) :
            (variant # 2 \/ IsFinite(At(Get(Current.rawIntensityData), i))) =>
                At(Get(Current.lastReconstructed), i) = At(Get(Current.rawIntensityData), i)

GridCells == (0..(GridN - 1)) \X (0..(GridN - 1))
TileOffsets == (0..(CropSize - 1)) \X (0..(CropSize - 1))

\* the set of source indices processCrop reads over all cells and offsets
SrcIndexImage ==
    {SrcIndex(co[1][1], co[1][2], co[2][1], co[2][2]) : co \in GridCells \X TileOffsets}

\* C5: the source index read by processCrop is a bijection from
\* (grid cell, offset in tile) onto the pixel indices of the scan (as many
\* positions as pixels, and every pixel index is read), and every tile a run
\* extracts holds the samples at those indices.
C5_GridCoverage ==
    /\ Cardinality(GridCells \X TileOffsets) = NumPixels
    /\ SrcIndexImage = 0..(NumPixels - 1)
    /\ \A k \in DOMAIN calls : \A o \in TileOffsets :
        LET sample == ScanSample(calls[k].src,
                                 SrcIndex(calls[k].gridX, calls[k].gridY, o[1], o[2]))
        IN  calls[k].tile[o[2] * CropSize + o[1] + 1] =
                IF variant = 2 THEN CropValueV2(sample) ELSE CropValue(sample)

C5_Witness ==
    /\ pc = "timer"
    /\ Len(calls) = NumOutputs
    /\ RunSources = {"a"}
    /\ Cardinality({calls[k].tile[j] : k \in DOMAIN calls, j \in 1..TileLen}) = NumPixels

\* C6: when combineOutputs rejects the outputs for their shape, the
\* processor's reconstruction is the buffer it was before the call.
C6_ShapeRejectionKeepsReconstruction ==
    [][(pc = "timer" /\ lastOp' = "outputsRejected") =>
            procs'[imageProcessor'].lastReconstructed
                = procs[imageProcessor].lastReconstructed]_vars

\* C7: a failing backend call (or tile extraction) ends the run: no further
\* backend call is made for it, nothing is assembled, isRunning is false
\* again, and the reconstruction and the difference buffer are unchanged; a
\* later backend call takes a new click (no retry).
C7_FailureAbortsRun ==
    [][/\ lastOp' = "runError" =>
            /\ ~isRunning'
            /\ pc' = "idle"
            /\ outstanding' = 0
            /\ outputs' = <<>>
            /\ procs' = procs
            /\ differenceData' = differenceData
       /\ outstanding' > outstanding =>
            \/ pc = "timer" /\ lastOp # "runError"
            \/ pc = "idle" /\ events' = events + 1]_vars

C7_Witness ==
    /\ lastOp = "runError"
    /\ ~isRunning
    /\ Len(calls) \in 1..(NumOutputs - 1)
    /\ ~IsNull(differenceData)
    /\ ~IsNull(Current.lastReconstructed)

\* C8: isRunning is never true without a loaded model and a loaded scan, in
\* any order of model load, file loads and run clicks; a run click with
\* either one missing changes nothing and submits no backend call.
C8_NeverRunningWithoutModelAndScan ==
    [][/\ isRunning => (model # "none" /\ imageLoaded)
       /\ isRunning' => (model' # "none" /\ imageLoaded'
                          /\ ~IsNull(procs'[imageProcessor'].rawIntensityData))
       /\ (RunInference /\ (model = "none" \/ ~imageLoaded)) =>
            UNCHANGED <<appVars, fileVars, runVars>>]_vars

C8_Witness ==
    /\ lastOp = "runRejected"
    /\ model = "none"
    /\ imageLoaded
    /\ ~isRunning
    /\ outstanding = 0

\* C9: all tiles of one run are taken from the same scan, and the
\* reconstruction and difference of a completed run are computed against
\* that scan.
C9_ScanFixedDuringRun ==
    /\ Cardinality(RunSources) <= 1
    /\ lastOp = "runCompleted" => RunSources = {Current.file}

\* C10: right after a scan is loaded or switched to, the session holds
\* neither a difference buffer nor a reconstruction computed for another
\* scan.
C10_LoadDiscardsBoth ==
    lastOp \in {"fileLoaded", "switched"} =>
        /\ IsNull(differenceData)
        /\ \/ IsNull(Current.lastReconstructed)
           \/ Current.reconSrc = {Current.file}

C12_ThresholdStrictlyPositive ==
    ~IsNull(highlight.threshold) =>
        /\ IsFinite(Get(highlight.threshold))
        /\ Get(highlight.threshold).v > 0

\* C12, the part that holds: in variants 1 and 3 the applied threshold is
\* strictly positive.
C12_PositiveInVariants1And3 ==
    (variant # 2 /\ ~IsNull(highlight.threshold)) =>
        /\ IsFinite(Get(highlight.threshold))
        /\ Get(highlight.threshold).v > 0

\* the difference values the thresholder of this variant keeps, as a set of
\* positions, and the number of them below / not above a value
KeptPositions ==
    {j \in 1..Len(Get(differenceData)) :
        /\ IsFinite(Get(differenceData)[j])
        /\ variant = 2 \/ Get(differenceData)[j].v > 0}
KeptBelow(x) == Cardinality({j \in KeptPositions : Get(differenceData)[j].v < x})
KeptUpTo(x) == Cardinality({j \in KeptPositions : Get(differenceData)[j].v <= x})

\* C13: with n kept values and percentile p, the threshold is the element at
\* index min(floor(p * n / 100), n - 1) of the kept values in ascending
\* order; p = 0 gives the smallest and p = 100 the largest.
C13_NearestRank ==
    (~IsNull(differenceData) /\ ~IsNull(highlight.threshold)) =>
        LET n == Cardinality(KeptPositions)
            e == (currentPercentile * n) \div 100
            i == IF e < n - 1 THEN e ELSE n - 1
            t == Get(highlight.threshold).v
        IN  /\ highlight.idx = i
            /\ KeptBelow(t) <= i /\ i < KeptUpTo(t)
            /\ currentPercentile = 0 => KeptBelow(t) = 0
            /\ currentPercentile = 100 => KeptUpTo(t) = n

\* C13, the part that holds: the threshold is the element of the kept values
\* at the index the code computed, which is the claimed index or one below it.
C13_RankWithinOne ==
    (~IsNull(differenceData) /\ ~IsNull(highlight.threshold)) =>
        LET n == Cardinality(KeptPositions)
            e == (currentPercentile * n) \div 100
            i == IF e < n - 1 THEN e ELSE n - 1
            t == Get(highlight.threshold).v
        IN  /\ highlight.idx \in {i - 1, i}
            /\ KeptBelow(t) <= highlight.idx /\ highlight.idx < KeptUpTo(t)
            /\ currentPercentile = 0 => KeptBelow(t) = 0
            /\ currentPercentile = 100 => KeptUpTo(t) = n

\* C14: for one difference buffer, moving the percentile up never lowers the
\* threshold: p1 < p2 implies threshold(p1) <= threshold(p2).
C14_PercentileMonotone ==
    [][(/\ ~IsNull(highlight.threshold)
        /\ ~IsNull(highlight'.threshold)
        /\ differenceData' = differenceData
        /\ currentPercentile < currentPercentile') =>
            Get(highlight.threshold).v <= Get(highlight'.threshold).v]_vars

C14_Witness ==
    /\ lastOp = "percentileSet"
    /\ currentPercentile < InitialPercentile
    /\ ~IsNull(highlight.threshold)
    /\ \E j \in KeptPositions :
        Get(differenceData)[j].v > Get(highlight.threshold).v

\* pixel i is anomalous: its difference is finite and >= the applied threshold
Anomalous(i) ==
    /\ At(Get(differenceData), i).t = "fin"
    /\ At(Get(differenceData), i).v >= Get(highlight.threshold).v

\* C15: after the slider applied a threshold to a Stride x Stride scan, a
\* pixel is tinted on the intensity canvas, and its point (where the surface
\* has one) is red in the point cloud, if and only if its difference is
\* finite and >= the threshold; equality counts.
C15_ClassificationFiniteInclusive ==
    (/\ lastOp = "percentileSet"
     /\ ~IsNull(differenceData)
     /\ ~IsNull(highlight.threshold)
     /\ Len(Get(differenceData)) = NumPixels) =>
        \A i \in 0..(NumPixels - 1) :
            /\ i \in highlight.overlay <=> Anomalous(i)
            /\ IsFinite(At(Get(Current.rawSurfaceData), i)) =>
                    (i \in highlight.cloud <=> Anomalous(i))

\* C15, the part that holds: the intensity overlay is inclusive and
\* finite-only, and so is the point cloud at pixels whose difference is finite.
C15_OverlayFiniteInclusive ==
    (/\ lastOp = "percentileSet"
     /\ ~IsNull(differenceData)
     /\ ~IsNull(highlight.threshold)
     /\ Len(Get(differenceData)) = NumPixels) =>
        \A i \in 0..(NumPixels - 1) :
            /\ i \in highlight.overlay <=> Anomalous(i)
            /\ (/\ IsFinite(At(Get(Current.rawSurfaceData), i))
                /\ IsFinite(At(Get(differenceData), i))) =>
                    (i \in highlight.cloud <=> Anomalous(i))

\* C18: a NaN or infinite intensity sample goes through the affine transform
\* into the tile (NaN stays NaN, an infinity keeps its sign); no finite value
\* is put in its place.
C18_NonFinitePropagates ==
    \A k \in DOMAIN calls : \A o \in TileOffsets :
        LET sample == ScanSample(calls[k].src,
                                 (calls[k].gridY * CropSize + o[2]) * Stride
                                     + calls[k].gridX * CropSize + o[1])
        IN  ~IsFinite(sample) => calls[k].tile[o[2] * CropSize + o[1] + 1] = sample

\* C18, the part that holds: variants 1 and 3 let non-finite samples through.
C18_PropagatesInVariants1And3 ==
    variant # 2 =>
        \A k \in DOMAIN calls : \A o \in TileOffsets :
            LET sample == ScanSample(calls[k].src,
                                     (calls[k].gridY * CropSize + o[2]) * Stride
                                         + calls[k].gridX * CropSize + o[1])
            IN  ~IsFinite(sample) => calls[k].tile[o[2] * CropSize + o[1] + 1] = sample

\* the finite values held by a buffer
FiniteValues(buf) == {buf[j].v : j \in {k \in DOMAIN buf : IsFinite(buf[k])}}

\* the range [lo, hi] computed for buf has max > min when buf holds a finite
\* value, and is {c, c + 1} when c is the only finite value of buf
RangeWidened(buf, lo, hi) ==
    LET S == FiniteValues(buf)
    IN  /\ S # {} => (FGe(hi, lo) /\ hi # lo)
        /\ Cardinality(S) = 1 => (\E c \in S : lo = Fin(c) /\ hi = Fin(c + 128))

\* C16: after calculateNormalization, a buffer whose finite values all equal
\* one value c has the range {min: c, max: c + 1}, and every buffer with at
\* least one finite value has a range with max > min; this holds for the
\* intensity buffer and for the surface buffer of every loaded processor.
C16_DegenerateRangeWidened ==
    \A id \in DOMAIN procs :
        LET p == procs[id]
        IN  ~IsNull(p.rawIntensityData) =>
                /\ RangeWidened(Get(p.rawIntensityData), p.intensityMin, p.intensityMax)
                /\ RangeWidened(Get(p.rawSurfaceData), p.surfaceMin, p.surfaceMax)

\* C16, the part that holds: the intensity range is widened in every variant,
\* and so is the surface range in variant 2, which scans the surface buffer
\* over its own length.
C16_WidenedOverOwnLength ==
    \A id \in DOMAIN procs :
        LET p == procs[id]
        IN  ~IsNull(p.rawIntensityData) =>
                /\ RangeWidened(Get(p.rawIntensityData), p.intensityMin, p.intensityMax)
                /\ variant = 2 =>
                       RangeWidened(Get(p.rawSurfaceData), p.surfaceMin, p.surfaceMax)

\* C17: a file whose intensity or surface buffer has no finite value is never
\* loaded: the load fails and leaves the ranges and scan buffers as they
\* were, so no processor ever holds the buffers of such a file.
C17_DegenerateDataRejected ==
    \A id \in DOMAIN procs :
        LET p == procs[id]
        IN  ~IsNull(p.rawIntensityData) =>
                /\ FiniteValues(Get(p.rawIntensityData)) # {}
                /\ FiniteValues(Get(p.rawSurfaceData)) # {}

\* the run that just completed computed its difference from an intensity
\* buffer and a reconstruction of different lengths
MismatchedRun ==
    /\ lastOp' = "runCompleted"
    /\ Len(Get(procs'[imageProcessor'].rawIntensityData))
           # Len(Get(procs'[imageProcessor'].lastReconstructed))

\* C19: when the intensity buffer and the reconstruction differ in length,
\* the difference computation produces no buffer: the step that ends the
\* run leaves differenceData as it was.
C19_LengthMismatchRejected ==
    [][MismatchedRun => differenceData' = differenceData]_vars

\* C19, the part that holds: variant 2 (createDifferenceImage) returns before
\* it allocates a buffer when the lengths differ.
C19_RejectedInVariant2 ==
    [][(variant = 2 /\ MismatchedRun) => differenceData' = differenceData]_vars

\* the element writes that pass the guard of combineOutputs, as
\* <<gridX, gridY, x, y>>
GuardedWrites ==
    {w \in (0..(GridN - 1)) \X (0..(GridN - 1)) \X (0..(CropSize - 1)) \X (0..(CropSize - 1)) :
        WriteGuard(w[1], w[2], w[3], w[4])}

\* C20: when combineOutputs has run over all outputs, every element it wrote
\* had startX + x < width and startY + y < height of the loaded scan, and
\* its target index lies in 0..width*height-1 of the reconstruction buffer.
C20_WritesWithinScan ==
    lastOp = "runCompleted" =>
        \A w \in GuardedWrites :
            /\ w[1] * CropSize + w[3] < Current.width
            /\ w[2] * CropSize + w[4] < Current.height
            /\ DstIndex(w[1], w[2], w[3], w[4]) < Current.width * Current.height

\* updateHighlighting has just run on a difference buffer that holds no
\* strictly positive finite value
HighlightingOnEmptySet ==
    /\ lastOp' \in {"runCompleted", "percentileSet"}
    /\ ~IsNull(differenceData')
    /\ \A j \in DOMAIN Get(differenceData') :
           ~(IsFinite(Get(differenceData')[j]) /\ Get(differenceData')[j].v > 0)

\* C21: when no difference value is finite and strictly positive,
\* updateHighlighting computes no threshold and leaves the highlight state
\* (threshold, hasHighlight, point colours, overlay) exactly as it was.
C21_EmptySetShortCircuits ==
    [][HighlightingOnEmptySet => highlight' = highlight]_vars

\* C21, the part that holds: variants 1 and 3 short-circuit.
C21_ShortCircuitsInVariants1And3 ==
    [][(variant # 2 /\ HighlightingOnEmptySet) => highlight' = highlight]_vars

\* C22: every run that enters Running returns to Idle (isRunning becomes
\* false again) when the backend calls settle, and a run ends only by
\* completing, by its outputs being rejected or by an error: no file load,
\* file switch, slider change or run click ends it.
C22_RunReturnsToIdle ==
    /\ isRunning ~> ~isRunning
    /\ [][(isRunning /\ ~isRunning') =>
             lastOp' \in {"runCompleted", "outputsRejected", "runError"}]_vars

\* a run completed although the scan was replaced while it was in flight
C22_Witness ==
    /\ lastOp = "runCompleted"
    /\ ~isRunning
    /\ \E k \in DOMAIN calls : calls[k].src # calls[1].src

\* the range [lo, hi] computed for buf is its smallest and its largest finite
\* entry, when buf holds at least two distinct finite values
RangeOfWholeBuffer(buf, lo, hi) ==
    LET S == FiniteValues(buf)
    IN  Cardinality(S) >= 2 =>
            /\ lo = Fin(CHOOSE m \in S : \A x \in S : m <= x)
            /\ hi = Fin(CHOOSE m \in S : \A x \in S : m >= x)

\* C23: after calculateNormalization, for the intensity buffer and for the
\* surface buffer of a loaded processor, each on its own, min is the smallest
\* and max the largest finite entry of the whole buffer when it holds two
\* distinct finite values, also when the two buffers differ in length.
C23_RangeOverWholeBuffer ==
    \A id \in DOMAIN procs :
        LET p == procs[id]
        IN  ~IsNull(p.rawIntensityData) =>
                /\ RangeOfWholeBuffer(Get(p.rawIntensityData), p.intensityMin, p.intensityMax)
                /\ RangeOfWholeBuffer(Get(p.rawSurfaceData), p.surfaceMin, p.surfaceMax)

\* C23, the part that holds: the intensity range in every variant, and the
\* surface range in variant 2 or when the surface buffer is not the longer one.
C23_RangeOverScannedPart ==
    \A id \in DOMAIN procs :
        LET p == procs[id]
        IN  ~IsNull(p.rawIntensityData) =>
                /\ RangeOfWholeBuffer(Get(p.rawIntensityData), p.intensityMin, p.intensityMax)
                /\ (variant = 2 \/ Len(Get(p.rawSurfaceData)) <= Len(Get(p.rawIntensityData))) =>
                       RangeOfWholeBuffer(Get(p.rawSurfaceData), p.surfaceMin, p.surfaceMax)

\* the steps of the pipeline: the run loop with processCrop, combineOutputs,
\* createDifferenceData and updateHighlighting, and the slider's handler
PipelineOps ==
    {"runRejected", "runStarted", "cellStarted", "inferReturned", "runError",
     "runCompleted", "outputsRejected", "percentileSet"}

\* C24: the scan is immutable after load: a step of the pipeline leaves
\* every processor's rawIntensityData, rawSurfaceData, width and height as
\* they were.
C24_ScanImmutableAfterLoad ==
    [][lastOp' \in PipelineOps =>
          \A id \in DOMAIN procs :
              /\ id \in DOMAIN procs'
              /\ procs'[id].rawIntensityData = procs[id].rawIntensityData
              /\ procs'[id].rawSurfaceData = procs[id].rawSurfaceData
              /\ procs'[id].width = procs[id].width
              /\ procs'[id].height = procs[id].height]_vars

\* a run went through the whole pipeline on a loaded scan: reconstruction,
\* difference and highlighting exist
C24_Witness ==
    /\ lastOp = "runCompleted"
    /\ Current.rawIntensityData = Some(ScanIntensity(Current.file))
    /\ ~IsNull(Current.lastReconstructed)
    /\ ~IsNull(differenceData)
    /\ ~IsNull(highlight.threshold)

\* C25: whenever the session holds a difference buffer, it is the per-pixel
\* difference of the current processor's intensity buffer and that
\* processor's current lastReconstructed.
C25_DifferenceIsCurrent ==
    ~IsNull(differenceData) =>
        /\ ~IsNull(Current.rawIntensityData)
        /\ ~IsNull(Current.lastReconstructed)
        /\ Get(differenceData) = DifferenceOf(Get(Current.rawIntensityData),
                                              Get(Current.lastReconstructed))

\* the positions of the strictly positive finite difference values
FilteredPositions ==
    {j \in DOMAIN Get(differenceData) :
        IsFinite(Get(differenceData)[j]) /\ Get(differenceData)[j].v > 0}

\* the applied threshold is one of the filtered values, it was fetched at an
\* index within 0..n-1, and the pixel it came from is tinted
ThresholdFromFilteredSet ==
    /\ \E j \in FilteredPositions : Get(differenceData)[j] = Get(highlight.threshold)
    /\ highlight.idx \in 0..(Cardinality(FilteredPositions) - 1)
    /\ \E i \in highlight.overlay : At(Get(differenceData), i) = Get(highlight.threshold)

\* C26: whenever highlighting is applied, the threshold is an element of the
\* set of strictly positive finite difference values, the index it was
\* fetched at lies within 0..n-1, and at least one pixel, the one holding the
\* rank element, is classified anomalous.
C26_ThresholdInFilteredSet ==
    (~IsNull(differenceData) /\ ~IsNull(highlight.threshold)) => ThresholdFromFilteredSet

\* C26, the part that holds: variants 1 and 3.
C26_InFilteredSetInVariants1And3 ==
    (variant # 2 /\ ~IsNull(differenceData) /\ ~IsNull(highlight.threshold)) =>
        ThresholdFromFilteredSet

\* C27: the percentile controls are visible only while the session holds a
\* difference buffer, and they are hidden in the state a file load or a file
\* switch ends in.
C27_ControlsImplyDifference ==
    /\ controlsShown => ~IsNull(differenceData)
    /\ lastOp \in {"fileLoaded", "switched"} => ~controlsShown

\* C27, the part that holds: variants 1 and 3, whose createDifferenceData
\* always assigns a buffer before the controls are shown.
C27_ControlsInVariants1And3 ==
    variant # 2 =>
        /\ controlsShown => ~IsNull(differenceData)
        /\ lastOp \in {"fileLoaded", "switched"} => ~controlsShown

\* C28: while a run is in flight the run button is disabled, whatever file
\* loads, file switches and model load interleave with the run; the button
\* is enabled only when a model is loaded, a scan is loaded and no run is in
\* flight.
C28_RunButtonDisabledWhileRunning ==
    /\ isRunning => runBtnDisabled
    /\ ~runBtnDisabled => (model # "none" /\ imageLoaded /\ ~isRunning)

\* C28, the part that holds: an enabled button means a model and a scan are
\* loaded, and the button is disabled in the state a run starts in.
C28_EnabledMeansModelAndScan ==
    /\ ~runBtnDisabled => (model # "none" /\ imageLoaded)
    /\ lastOp = "runStarted" => (isRunning /\ runBtnDisabled)

\* s can be obtained from t by leaving elements out
IsSubseq(s, t) ==
    \E f \in [1..Len(s) -> 1..Len(t)] :
        /\ \A k \in 1..Len(s) : s[k] = t[f[k]]
        /\ \A k \in 1..(Len(s) - 1) : f[k] < f[k + 1]

\* the invocation loads[i] of loadMultipleDatxFiles finishes in this step, and
\* no other invocation is in flight
MultiLoadFinishes(i) ==
    /\ loads[i].kind = "multi"
    /\ loads[i].i = Len(loads[i].files)
    /\ loads' = Remove(loads, i)
    /\ lastOp' \in {"fileLoaded", "loadFailed"}
    /\ \A k \in DOMAIN loads' : loads'[k].kind # "multi"

\* C29: when loadMultipleDatxFiles finishes, loadedFiles holds files of that
\* invocation only, in input order, and, if it holds any, the current
\* processor is loadedFiles[currentFileIndex] with the index in range; also
\* when the invocation started while an earlier one was awaiting a file.
C29_LoadedFilesOfLastInvocation ==
    [][\A i \in DOMAIN loads :
          MultiLoadFinishes(i) =>
              /\ IsSubseq([k \in DOMAIN loadedFiles' |-> procs'[loadedFiles'[k]].file],
                          loads[i].files)
              /\ Len(loadedFiles') > 0 =>
                     /\ currentFileIndex' \in 0..(Len(loadedFiles') - 1)
                     /\ imageProcessor' = loadedFiles'[currentFileIndex' + 1]]_vars

\* the scan held by processor p: buffers, dimensions and ranges
ScanOf(p) ==
    <<p.rawIntensityData, p.rawSurfaceData, p.width, p.height,
      p.intensityMin, p.intensityMax, p.surfaceMin, p.surfaceMax>>

\* C30: a file load that fails leaves the current scan as it was: the
\* buffers, dimensions and ranges of the active processor, imageLoaded and
\* the difference buffer are the same as before.
C30_FailedLoadChangesNothing ==
    [][lastOp' = "loadFailed" =>
          /\ imageProcessor' = imageProcessor
          /\ ScanOf(procs'[imageProcessor']) = ScanOf(procs[imageProcessor])
          /\ imageLoaded' = imageLoaded
          /\ differenceData' = differenceData]_vars

\* C30, the part that holds: variant 1, where every load fills a new
\* ImageProcessor.
C30_NothingChangesInVariant1 ==
    [][(variant = 1 /\ lastOp' = "loadFailed") =>
          /\ imageProcessor' = imageProcessor
          /\ ScanOf(procs'[imageProcessor']) = ScanOf(procs[imageProcessor])
          /\ imageLoaded' = imageLoaded
          /\ differenceData' = differenceData]_vars
====
